---- MODULE Spec2Model ----
(***************************************************************************)
(* Model of simple_vae_demo.py: the Visdom start-up polling loop, the      *)
(* train/validate pass (train_validate), one epoch (execute_graph) and the *)
(* main loop with early stopping and checkpoint selection.                 *)
(*                                                                         *)
(* Losses are exact rationals [num, den] counted in units of 1e-5, so that *)
(* the division by the dataset size, the comparison with best_loss, the    *)
(* min_delta test of EarlyStopping and the four-decimal rendering of the   *)
(* checkpoint file name are all computed, not assumed.  The network, the   *)
(* loss function and the optimizer are black boxes: a batch's loss is any  *)
(* value of LossVals, and the parameters are a version number that an      *)
(* optimizer step advances.                                                *)
(***************************************************************************)
EXTENDS Integers, Sequences, FiniteSets

VARIABLES
    num_epochs,     \* args.epochs
    use_visdom,     \* args.visdom_url is not None
    batch_size,     \* args.batch_size
    n_train,        \* len(loader_train.dataset)
    n_val,          \* len(loader_val.dataset)
    up_after,       \* failed check_connection() calls before the endpoint answers
    startup_sec,    \* start-up budget left, in tenths of a second
    polls,          \* calls of viz.check_connection() so far
    ever_connected, \* the last check_connection() call returned True
    viz_calls,      \* calls made on viz inside execute_graph
    pc,             \* position of the script
    epoch,          \* loop variable of the main loop
    best_loss,      \* best_loss
    v_loss,         \* v_loss of the main loop
    t_loss,         \* t_loss of execute_graph
    stop,           \* stop of the main loop
    loss,           \* local `loss` of train_validate (numerator, 1e-5 units)
    batch_idx,      \* batches consumed by the running pass
    true_sum,       \* sum of the batch losses of the current/last pass
    pass_steps,     \* optimizer steps taken by the current/last pass
    params,         \* version of the model parameters
    opt_state,      \* version of the optimizer's moment estimates
    grad,           \* gradient buffers: "none", or "set" by loss.backward()
    training,       \* model.training
    train_passes,   \* train_validate(train=True) calls begun
    eval_passes,    \* train_validate(train=False) calls begun
    sched_steps,    \* scheduler.step calls
    es_calls,       \* early_stopping.step calls
    ckpt_writes,    \* save_checkpoint calls
    n_results,      \* execute_graph calls that returned
    files,          \* names (four-decimal keys) of the checkpoint files on disk
    last_ckpt,      \* content of the checkpoint written last
    es_best,        \* EarlyStopping: best value
    es_bad,         \* EarlyStopping: bad epochs count
    es_on_seq,      \* the values fed to step so far are a prefix of TestSeq
    es_first_stop,  \* index of the first step call that returned true, 0 if none
    min_seen,       \* minimum of the validation losses returned so far
    strict_dec,     \* every validation loss so far was below the one before
    err             \* exception that ended the script, "" if none

vars == << num_epochs, use_visdom, batch_size, n_train, n_val, up_after,
           startup_sec,
           polls, ever_connected, viz_calls, pc, epoch, best_loss, v_loss,
           t_loss, stop, loss, batch_idx, true_sum, pass_steps, params,
           opt_state, grad, training, train_passes, eval_passes, sched_steps,
           es_calls, ckpt_writes, n_results, files, last_ckpt, es_best,
           es_bad, es_on_seq, es_first_stop, min_seen, strict_dec, err >>

cfgVars == << num_epochs, use_visdom, batch_size, n_train, n_val, up_after >>
vizVars == << startup_sec, polls, ever_connected >>
passVars == << loss, batch_idx, true_sum, pass_steps >>
modelVars == << params, opt_state, grad, training >>
countVars == << train_passes, eval_passes, sched_steps, es_calls, ckpt_writes,
                n_results >>
ckptVars == << files, last_ckpt, best_loss >>
esVars == << es_best, es_bad >>
harnessVars == << es_on_seq, es_first_stop >>
ghostVars == << min_seen, strict_dec >>

(***************************************************************************)
(* Bounds of the model.                                                    *)
(***************************************************************************)
MaxEpochs == 7
MaxExamples == 2
MaxBatchSize == 2
MaxCalls == 7
MaxDelay == 2

(***************************************************************************)
(* Program constants.                                                      *)
(***************************************************************************)
\* startup_sec = 2, in tenths of a second (time.sleep(0.1); startup_sec -= 0.1)
StartupTenths == 20
\* EarlyStopping('min', 0.0005, 5): min_delta in units of 1e-5, and patience
MinDelta == 50
PatienceOffByTwo == 5 - 2
Patience == 5
\* '{:04.4f}'.format(v_loss): one unit of the last printed decimal, in 1e-5 units
KeyUnit == 10

\* The visualization endpoint never answers.
Never == 0 - 1

\* viz.check_connection() at the call after `done` earlier calls
CheckConnection(after, done) == after # Never /\ done >= after

\* `not viz.check_connection() and startup_sec > 0`
KeepPolling(connected, budget) == ~connected /\ budget > 0

\* The metric sequence 1.0, 0.999, 0.9985, 0.998, 0.998, 0.998, 0.998 in units
\* of 1e-5, and the values a caller may feed to EarlyStopping.step.
TestSeq == << 100000, 99900, 99850, 99800, 99800, 99800, 99800 >>
MetricVals == { TestSeq[i] : i \in 1..Len(TestSeq) }

\* Losses a batch can have, in units of 1e-5 (the loss function is a black box).
LossVals == {2, 4, 60}

(***************************************************************************)
(* Rational arithmetic on losses.                                          *)
(***************************************************************************)
Rat(n, d) == [num |-> n, den |-> d]
\* np.inf
Inf == Rat(1, 0)
\* a name that is not bound yet
Unset == Rat(-1, 0)

\* a < b on floats (b may be np.inf)
RatLess(a, b) == a.num * b.den < b.num * a.den
RatMin(a, b) == IF RatLess(b, a) THEN b ELSE a

\* len(loader): batches of a DataLoader over n examples (drop_last is False)
NumBatches(n, bs) == (n + bs - 1) \div bs

\* loss / batch_sz at the end of train_validate.  With no batch, loss is the
\* Python int 0 and batch_sz is 0: int / int raises ZeroDivisionError.
ReturnSilently(l, n) == [ok |-> TRUE, val |-> Rat(l, IF n = 0 THEN 1 ELSE n)]
TrainValidateReturn(l, n) ==
    IF n = 0 THEN [ok |-> FALSE, val |-> Unset]
             ELSE [ok |-> TRUE, val |-> Rat(l, n)]

\* loss = loss_fn(...); loss += loss.item(): the running value is overwritten
\* by the batch loss and then added to itself.
LossAfterBatch(running, l) == l + l

\* opt.step() is guarded by `if train`
StepAlways(train, p) == p + 1
AfterOptStep(train, p) == IF train THEN p + 1 ELSE p

\* opt.zero_grad() and loss.backward() are guarded by `if train`
GradAfterBatch(train, g) == IF train THEN "set" ELSE g

(***************************************************************************)
(* EarlyStopping (nn_helpers.losses), mode 'min'.                          *)
(***************************************************************************)
IsBetter(v, best) ==
    IF best.den = 0 THEN TRUE
    ELSE v.num * best.den < (best.num - MinDelta * best.den) * v.den
ESBest(v, best) == IF IsBetter(v, best) THEN v ELSE best
ESBadNoReset(v, best, bad) == bad + 1
ESBad(v, best, bad) == IF IsBetter(v, best) THEN 0 ELSE bad + 1
ESStop(bad) == bad >= Patience

(***************************************************************************)
(* Checkpoint policy of the main loop.                                     *)
(***************************************************************************)
CheckpointAlways(v, best, s) == TRUE
CheckpointOnWorse(v, best, s) == RatLess(best, v) \/ s
ShouldCheckpoint(v, best, s) == RatLess(v, best) \/ s

\* 'models/CVAE_{:04.4f}.pt'.format(v_loss): v rounded to four decimals
\* (nearest, an exact tie to the even neighbour).
FileKey(v) ==
    LET q == v.num \div (v.den * KeyUnit)
        r == v.num - q * v.den * KeyUnit
    IN  IF 2 * r > v.den * KeyUnit THEN q + 1
        ELSE IF 2 * r < v.den * KeyUnit THEN q
        ELSE IF q % 2 = 0 THEN q ELSE q + 1

NoCkpt == [epoch |-> 0, state_dict |-> 0, val_loss |-> Unset]

\* `if stop: break`
NeverBreak(s) == "loop"
AfterCheckpoint(s) == IF s THEN "final" ELSE "loop"

(***************************************************************************)
(* Initial state: after argument parsing and construction of the loaders,  *)
(* the model, the optimizer, the scheduler and EarlyStopping.              *)
(***************************************************************************)
Constructed ==
    /\ startup_sec = 0
    /\ polls = 0
    /\ ever_connected = FALSE
    /\ viz_calls = 0
    /\ epoch = 0
    /\ best_loss = Inf
    /\ v_loss = Unset
    /\ t_loss = Unset
    /\ stop = FALSE
    /\ loss = 0
    /\ batch_idx = 0
    /\ true_sum = 0
    /\ pass_steps = 0
    /\ params = 0
    /\ opt_state = 0
    /\ grad = "none"
    /\ training = TRUE
    /\ train_passes = 0
    /\ eval_passes = 0
    /\ sched_steps = 0
    /\ es_calls = 0
    /\ ckpt_writes = 0
    /\ n_results = 0
    /\ files = {}
    /\ last_ckpt = NoCkpt
    /\ es_best = Inf
    /\ es_bad = 0
    /\ es_on_seq = TRUE
    /\ es_first_stop = 0
    /\ min_seen = Inf
    /\ strict_dec = TRUE
    /\ err = ""

Init ==
    /\ num_epochs \in 1..MaxEpochs
    /\ use_visdom \in BOOLEAN
    /\ batch_size \in 1..MaxBatchSize
    /\ n_train \in 0..MaxExamples
    /\ n_val \in 0..MaxExamples
    /\ up_after \in IF use_visdom THEN (0..MaxDelay) \cup {Never} ELSE {Never}
    /\ pc = "visdom_init"
    /\ Constructed

(***************************************************************************)
(* Visdom init (module level).                                             *)
(***************************************************************************)
\* use_visdom is False: the block is skipped.
SkipVisdom ==
    /\ pc = "visdom_init"
    /\ ~use_visdom
    /\ pc' = "loop"
    /\ UNCHANGED << cfgVars, vizVars, viz_calls, epoch, v_loss, t_loss, stop,
                    passVars, modelVars, countVars, ckptVars, esVars,
                    harnessVars, ghostVars, err >>

\* viz = Visdom(env=env_name); startup_sec = 2
VisdomConnect ==
    /\ pc = "visdom_init"
    /\ use_visdom
    /\ startup_sec' = StartupTenths
    /\ pc' = "poll"
    /\ UNCHANGED << cfgVars, polls, ever_connected, viz_calls, epoch, v_loss,
                    t_loss, stop, passVars, modelVars, countVars, ckptVars,
                    esVars, harnessVars, ghostVars, err >>

\* while not viz.check_connection() and startup_sec > 0: the call returned
\* False and budget is left: sleep and decrement.
PollRetry ==
    /\ pc = "poll"
    /\ KeepPolling(CheckConnection(up_after, polls), startup_sec)
    /\ polls' = polls + 1
    /\ startup_sec' = startup_sec - 1
    /\ UNCHANGED << cfgVars, ever_connected, viz_calls, pc, epoch, v_loss,
                    t_loss, stop, passVars, modelVars, countVars, ckptVars,
                    esVars, harnessVars, ghostVars, err >>

\* The loop condition is false: the call returned True, or it returned False
\* with the budget used up.  The script goes on either way (the assert on the
\* connection is commented out) and use_visdom is left as it is.
PollExit ==
    /\ pc = "poll"
    /\ ~KeepPolling(CheckConnection(up_after, polls), startup_sec)
    /\ ever_connected' = CheckConnection(up_after, polls)
    /\ polls' = polls + 1
    /\ pc' = "loop"
    /\ UNCHANGED << cfgVars, startup_sec, viz_calls, epoch, v_loss, t_loss,
                    stop, passVars, modelVars, countVars, ckptVars, esVars,
                    harnessVars, ghostVars, err >>

(***************************************************************************)
(* train_validate, one action per step of the pass.                        *)
(***************************************************************************)
\* for epoch in range(1, num_epochs + 1): next epoch; execute_graph calls
\* train_validate(train=True): model.train(); loss = 0
TrainBegin ==
    /\ pc = "loop"
    /\ epoch < num_epochs
    /\ epoch' = epoch + 1
    /\ training' = TRUE
    /\ loss' = 0
    /\ batch_idx' = 0
    /\ true_sum' = 0
    /\ pass_steps' = 0
    /\ train_passes' = train_passes + 1
    /\ pc' = "train"
    /\ UNCHANGED << cfgVars, vizVars, viz_calls, v_loss, t_loss, stop, params,
                    opt_state, grad, eval_passes, sched_steps, es_calls,
                    ckpt_writes, n_results, ckptVars, esVars, harnessVars,
                    ghostVars, err >>

\* The body of the batch loop, for a pass in mode `train` over n examples.
BatchStep(train, n) ==
    /\ batch_idx < NumBatches(n, batch_size)
    /\ \E l \in LossVals :
          /\ loss' = LossAfterBatch(loss, l)
          /\ true_sum' = true_sum + l
    /\ batch_idx' = batch_idx + 1
    /\ grad' = GradAfterBatch(train, grad)
    /\ params' = AfterOptStep(train, params)
    /\ opt_state' = AfterOptStep(train, opt_state)
    /\ pass_steps' = pass_steps + (AfterOptStep(train, params) - params)
    /\ UNCHANGED << cfgVars, vizVars, viz_calls, pc, epoch, v_loss, t_loss,
                    stop, training, countVars, ckptVars, esVars, harnessVars,
                    ghostVars, err >>

TrainBatch ==
    /\ pc = "train"
    /\ BatchStep(TRUE, n_train)

\* return loss / batch_sz, assigned to t_loss
TrainReturn ==
    /\ pc = "train"
    /\ batch_idx = NumBatches(n_train, batch_size)
    /\ TrainValidateReturn(loss, n_train).ok
    /\ t_loss' = TrainValidateReturn(loss, n_train).val
    /\ loss' = 0
    /\ batch_idx' = 0
    /\ pc' = "eval_begin"
    /\ UNCHANGED << cfgVars, vizVars, viz_calls, epoch, v_loss, stop, true_sum,
                    pass_steps, modelVars, countVars, ckptVars, esVars,
                    harnessVars, ghostVars, err >>

\* loss / batch_sz raises: nothing catches it, the script ends.
TrainRaise ==
    /\ pc = "train"
    /\ batch_idx = NumBatches(n_train, batch_size)
    /\ ~TrainValidateReturn(loss, n_train).ok
    /\ err' = "ZeroDivisionError"
    /\ pc' = "error"
    /\ UNCHANGED << cfgVars, vizVars, viz_calls, epoch, v_loss, t_loss, stop,
                    passVars, modelVars, countVars, ckptVars, esVars,
                    harnessVars, ghostVars >>

\* train_validate(train=False): model.eval(); loss = 0
EvalBegin ==
    /\ pc = "eval_begin"
    /\ training' = FALSE
    /\ loss' = 0
    /\ batch_idx' = 0
    /\ true_sum' = 0
    /\ pass_steps' = 0
    /\ eval_passes' = eval_passes + 1
    /\ pc' = "eval"
    /\ UNCHANGED << cfgVars, vizVars, viz_calls, epoch, v_loss, t_loss, stop,
                    params, opt_state, grad, train_passes, sched_steps,
                    es_calls, ckpt_writes, n_results, ckptVars, esVars,
                    harnessVars, ghostVars, err >>

EvalBatch ==
    /\ pc = "eval"
    /\ BatchStep(FALSE, n_val)

\* return loss / batch_sz, assigned to v_loss
EvalReturn ==
    /\ pc = "eval"
    /\ batch_idx = NumBatches(n_val, batch_size)
    /\ TrainValidateReturn(loss, n_val).ok
    /\ LET v == TrainValidateReturn(loss, n_val).val
       IN  /\ v_loss' = v
           /\ min_seen' = RatMin(min_seen, v)
           /\ strict_dec' = (strict_dec /\ (epoch = 1 \/ RatLess(v, v_loss)))
    /\ loss' = 0
    /\ batch_idx' = 0
    /\ pc' = "sched"
    /\ UNCHANGED << cfgVars, vizVars, viz_calls, epoch, t_loss, stop, true_sum,
                    pass_steps, modelVars, countVars, ckptVars, esVars,
                    harnessVars, err >>

EvalRaise ==
    /\ pc = "eval"
    /\ batch_idx = NumBatches(n_val, batch_size)
    /\ ~TrainValidateReturn(loss, n_val).ok
    /\ err' = "ZeroDivisionError"
    /\ pc' = "error"
    /\ UNCHANGED << cfgVars, vizVars, viz_calls, epoch, v_loss, t_loss, stop,
                    passVars, modelVars, countVars, ckptVars, esVars,
                    harnessVars, ghostVars >>

(***************************************************************************)
(* The rest of execute_graph.                                              *)
(***************************************************************************)
\* scheduler.step(v_loss) and the two prints
SchedulerStep ==
    /\ pc = "sched"
    /\ sched_steps' = sched_steps + 1
    /\ pc' = "report"
    /\ UNCHANGED << cfgVars, vizVars, viz_calls, epoch, v_loss, t_loss, stop,
                    passVars, modelVars, train_passes, eval_passes, es_calls,
                    ckpt_writes, n_results, ckptVars, esVars, harnessVars,
                    ghostVars, err >>

\* if use_visdom: two update_plot calls and two viz.images calls
\* (reconstruction_example puts the model in eval mode); return v_loss
Visualize ==
    /\ pc = "report"
    /\ use_visdom
    /\ viz_calls' = viz_calls + 4
    /\ training' = FALSE
    /\ n_results' = n_results + 1
    /\ t_loss' = Unset
    /\ true_sum' = 0
    /\ pass_steps' = 0
    /\ pc' = "early_stop"
    /\ UNCHANGED << cfgVars, vizVars, epoch, v_loss, stop, loss, batch_idx,
                    params, opt_state, grad, train_passes, eval_passes,
                    sched_steps, es_calls, ckpt_writes, ckptVars, esVars,
                    harnessVars, ghostVars, err >>

\* use_visdom is False: return v_loss
NoVisualize ==
    /\ pc = "report"
    /\ ~use_visdom
    /\ n_results' = n_results + 1
    /\ t_loss' = Unset
    /\ true_sum' = 0
    /\ pass_steps' = 0
    /\ pc' = "early_stop"
    /\ UNCHANGED << cfgVars, vizVars, viz_calls, epoch, v_loss, stop, loss,
                    batch_idx, modelVars, train_passes, eval_passes,
                    sched_steps, es_calls, ckpt_writes, ckptVars, esVars,
                    harnessVars, ghostVars, err >>

(***************************************************************************)
(* The main loop after execute_graph.                                      *)
(***************************************************************************)
\* stop = early_stopping.step(v_loss)
EarlyStoppingStep ==
    /\ pc = "early_stop"
    /\ es_best' = ESBest(v_loss, es_best)
    /\ es_bad' = ESBad(v_loss, es_best, es_bad)
    /\ stop' = ESStop(ESBad(v_loss, es_best, es_bad))
    /\ es_calls' = es_calls + 1
    /\ pc' = "checkpoint"
    /\ UNCHANGED << cfgVars, vizVars, viz_calls, epoch, v_loss, t_loss,
                    passVars, modelVars, train_passes, eval_passes,
                    sched_steps, ckpt_writes, n_results, ckptVars,
                    harnessVars, ghostVars, err >>

\* if v_loss < best_loss or stop: best_loss = v_loss; save_checkpoint(...)
\* followed by `if stop: break`
CheckpointWrite ==
    /\ pc = "checkpoint"
    /\ ShouldCheckpoint(v_loss, best_loss, stop)
    /\ best_loss' = v_loss
    /\ last_ckpt' = [epoch |-> epoch + 1, state_dict |-> params,
                     val_loss |-> v_loss]
    /\ files' = files \cup {FileKey(v_loss)}
    /\ ckpt_writes' = ckpt_writes + 1
    /\ pc' = AfterCheckpoint(stop)
    /\ UNCHANGED << cfgVars, vizVars, viz_calls, epoch, v_loss, t_loss, stop,
                    passVars, modelVars, train_passes, eval_passes,
                    sched_steps, es_calls, n_results, esVars, harnessVars,
                    ghostVars, err >>

CheckpointSkip ==
    /\ pc = "checkpoint"
    /\ ~ShouldCheckpoint(v_loss, best_loss, stop)
    /\ pc' = AfterCheckpoint(stop)
    /\ UNCHANGED << cfgVars, vizVars, viz_calls, epoch, v_loss, t_loss, stop,
                    passVars, modelVars, countVars, ckptVars, esVars,
                    harnessVars, ghostVars, err >>

\* range(1, num_epochs + 1) is exhausted
LoopExhausted ==
    /\ pc = "loop"
    /\ epoch >= num_epochs
    /\ pc' = "final"
    /\ UNCHANGED << cfgVars, vizVars, viz_calls, epoch, v_loss, t_loss, stop,
                    passVars, modelVars, countVars, ckptVars, esVars,
                    harnessVars, ghostVars, err >>

\* The final sample and the final reconstruction are written to disk
\* (reconstruction_example puts the model in eval mode).
FinalArtifacts ==
    /\ pc = "final"
    /\ training' = FALSE
    /\ pc' = "done"
    /\ UNCHANGED << cfgVars, vizVars, viz_calls, epoch, v_loss, t_loss, stop,
                    passVars, params, opt_state, grad, countVars, ckptVars,
                    esVars, harnessVars, ghostVars, err >>

Next ==
    \/ SkipVisdom
    \/ VisdomConnect
    \/ PollRetry
    \/ PollExit
    \/ TrainBegin
    \/ TrainBatch
    \/ TrainReturn
    \/ TrainRaise
    \/ EvalBegin
    \/ EvalBatch
    \/ EvalReturn
    \/ EvalRaise
    \/ SchedulerStep
    \/ Visualize
    \/ NoVisualize
    \/ EarlyStoppingStep
    \/ CheckpointWrite
    \/ CheckpointSkip
    \/ LoopExhausted
    \/ FinalArtifacts

Spec == Init /\ [][Next]_vars

(***************************************************************************)
(* EarlyStopping on its own: a fresh EarlyStopping('min', 0.0005, 5) whose *)
(* step is called with any metric values, also after it returned true.     *)
(***************************************************************************)
InitES ==
    /\ num_epochs = 1
    /\ use_visdom = FALSE
    /\ batch_size = 1
    /\ n_train = 1
    /\ n_val = 1
    /\ up_after = Never
    /\ pc = "harness"
    /\ Constructed

\* stop = early_stopping.step(m)
ESFeed ==
    /\ pc = "harness"
    /\ es_calls < MaxCalls
    /\ \E m \in MetricVals :
          LET v == Rat(m, 1)
              bad == ESBad(v, es_best, es_bad)
          IN  /\ v_loss' = v
              /\ es_best' = ESBest(v, es_best)
              /\ es_bad' = bad
              /\ stop' = ESStop(bad)
              /\ es_on_seq' = (/\ es_on_seq
                               /\ es_calls + 1 <= Len(TestSeq)
                               /\ m = TestSeq[es_calls + 1])
              /\ es_first_stop' = IF es_first_stop = 0 /\ ESStop(bad)
                                  THEN es_calls + 1 ELSE es_first_stop
    /\ es_calls' = es_calls + 1
    /\ UNCHANGED << cfgVars, vizVars, viz_calls, pc, epoch, t_loss, passVars,
                    modelVars, train_passes, eval_passes, sched_steps,
                    ckpt_writes, n_results, ckptVars, ghostVars, err >>

NextES == ESFeed

SpecES == InitES /\ [][NextES]_vars

(***************************************************************************)
(* Properties.                                                             *)
(***************************************************************************)
AfterStop == {"final", "done"}
RunCounters == << train_passes, eval_passes, sched_steps, es_calls,
                  ckpt_writes, params, opt_state >>

\* C1: train_validate returns the sum of all batch losses of the pass divided
\* by the dataset size, for the training pass (t_loss) and for the validation
\* pass (v_loss).
C1_ReturnsSumOverN ==
    /\ pc = "eval_begin" => t_loss = Rat(true_sum, n_train)
    /\ pc = "sched" => v_loss = Rat(true_sum, n_val)

\* C2: a step of the main loop writes a checkpoint if and only if it is the
\* checkpoint decision of an epoch whose validation loss is strictly below
\* best_loss or whose early-stopping step returned stop; with best 0.5 a loss
\* of 0.4 writes, 0.6 without stop does not, 0.6 with stop does.
C2_CheckpointIff ==
    [][ /\ (ckpt_writes' # ckpt_writes) <=>
             (pc = "checkpoint" /\ (RatLess(v_loss, best_loss) \/ stop))
        /\ (ckpt_writes' # ckpt_writes) =>
             /\ ckpt_writes' = ckpt_writes + 1
             /\ last_ckpt'.val_loss = v_loss
             /\ FileKey(v_loss) \in files'
        /\ ShouldCheckpoint(Rat(40000, 1), Rat(50000, 1), FALSE)
        /\ ~ShouldCheckpoint(Rat(60000, 1), Rat(50000, 1), FALSE)
        /\ ShouldCheckpoint(Rat(60000, 1), Rat(50000, 1), TRUE)
      ]_vars

\* C2 witness: the run stopped early in an epoch whose loss is above the best
\* one, and that epoch's checkpoint was written all the same, after an
\* earlier epoch that wrote none.
C2_Witness ==
    /\ pc = "final"
    /\ stop
    /\ RatLess(min_seen, v_loss)
    /\ last_ckpt.epoch = epoch + 1
    /\ ckpt_writes < epoch

\* C3: in the epoch whose early-stopping step returned stop, the checkpoint
\* decision writes a checkpoint and the loop is left; from then on there is
\* no training pass, validation pass, scheduler step, early-stopping step,
\* checkpoint write or parameter update.
C3_StopIsTerminal ==
    [][ /\ (stop /\ pc = "checkpoint") =>
             (ckpt_writes' = ckpt_writes + 1 /\ pc' = "final")
        /\ (stop /\ pc # "checkpoint") =>
             /\ pc \in AfterStop
             /\ pc' \in AfterStop
             /\ UNCHANGED RunCounters
      ]_vars

\* C3 witness: the script finished after a stop with epochs left to run.
C3_Witness ==
    /\ pc = "done"
    /\ stop
    /\ epoch < num_epochs
    /\ last_ckpt.epoch = epoch + 1

\* A finished run of three epochs, each validation loss below the one before,
\* early stopping never having returned stop.
ThreeDecreasingEpochs ==
    /\ pc = "done"
    /\ num_epochs = 3
    /\ strict_dec
    /\ ~stop

\* C4 (as stated): such a run leaves three epoch results and exactly one
\* checkpoint file.
C4_OneCheckpointFile ==
    ThreeDecreasingEpochs => (n_results = 3 /\ Cardinality(files) = 1)

\* C4 (amended): such a run leaves three epoch results and three checkpoint
\* writes, one per epoch, the last one holding the third epoch's loss; the
\* files are named after the losses rendered to four decimals, so there are
\* between one and three of them.
C4_ThreeCheckpointWrites ==
    ThreeDecreasingEpochs =>
        /\ n_results = 3
        /\ ckpt_writes = 3
        /\ last_ckpt = [epoch |-> 4, state_dict |-> params, val_loss |-> v_loss]
        /\ FileKey(v_loss) \in files
        /\ Cardinality(files) \in 1..3

\* C4 witness: such a run that left three different checkpoint files.
C4_Witness ==
    /\ ThreeDecreasingEpochs
    /\ ckpt_writes = 3
    /\ Cardinality(files) = 3

\* The values fed to a fresh EarlyStopping are the first es_calls of TestSeq.
OnTestSeq == pc = "harness" /\ es_on_seq /\ es_calls >= 1

\* C5 (as stated): fed TestSeq, step returns stop for the first time at the
\* 6th or the 7th call.
C5_StopsAtSixOrSeven ==
    (OnTestSeq /\ es_calls = Len(TestSeq)) => es_first_stop \in {6, 7}

\* C5 (amended): fed TestSeq, step returns stop at none of the seven calls;
\* after the 7th call the bad epochs count is 3.
C5_NoStopOnTestSeq ==
    OnTestSeq =>
        /\ ~stop
        /\ es_first_stop = 0
        /\ es_calls = Len(TestSeq) => (es_bad = 3 /\ es_best = Rat(99800, 1))

\* C5 witness: all seven values of TestSeq were fed.
C5_Witness == OnTestSeq /\ es_calls = Len(TestSeq)

\* C6 (as stated): once step returned true, the bad epochs count never
\* decreases on a later step call.
C6_BadCountMonotoneAfterStop ==
    [][ es_first_stop > 0 => es_bad' >= es_bad ]_vars

\* C6 (amended): once step returned true, a later step call lowers the bad
\* epochs count only when its value is below the best value by more than
\* min_delta, and then to 0; every other later call raises it by one.
C6_BadCountAfterStop ==
    [][ (pc = "harness" /\ es_first_stop > 0) =>
          IF IsBetter(v_loss', es_best)
          THEN es_bad' = 0
          ELSE es_bad' = es_bad + 1
      ]_vars

\* C6 witness: a step call after the one that returned true reset the count.
C6_Witness ==
    /\ pc = "harness"
    /\ es_first_stop > 0
    /\ es_calls > es_first_stop
    /\ es_bad = 0

\* C7: no step of a validation pass changes the parameters, the optimizer
\* state or the gradients, and the parameters and optimizer state change
\* only in a batch step of a training pass.
C7_EvalIsPure ==
    [][ /\ pc \in {"eval_begin", "eval"} =>
             UNCHANGED << params, opt_state, grad >>
        /\ (params' # params \/ opt_state' # opt_state) =>
             (pc = "train" /\ pc' = "train" /\ training)
      ]_vars

\* C7 witness: a validation pass over at least one batch has returned in a
\* second or later epoch, with optimizer steps taken before it.
C7_Witness ==
    /\ pc = "sched"
    /\ epoch >= 2
    /\ true_sum > 0
    /\ pass_steps = 0
    /\ params > 0

\* C8: a pass over an empty data source ends the script with a
\* ZeroDivisionError and binds no result; the failed pass took no optimizer
\* step, and the scheduler step, early-stopping step, checkpoint decision and
\* epoch result of that epoch do not happen.
C8_EmptySourceFails ==
    /\ pc = "error" =>
          /\ err = "ZeroDivisionError"
          /\ n_train = 0 \/ n_val = 0
          /\ pass_steps = 0
          /\ sched_steps = epoch - 1
          /\ es_calls = epoch - 1
          /\ n_results = epoch - 1
          /\ last_ckpt.epoch # epoch + 1
    /\ n_train = 0 =>
          /\ t_loss = Unset
          /\ params = 0
          /\ pc \in {"visdom_init", "poll", "loop", "train", "error"}
    /\ n_val = 0 =>
          /\ v_loss = Unset
          /\ pc \in {"visdom_init", "poll", "loop", "train", "eval_begin",
                     "eval", "error"}
    /\ (pc # "error") => err = ""

\* C8 witness: the validation pass over an empty source failed after a
\* training pass that took optimizer steps.
C8_Witness ==
    /\ pc = "error"
    /\ n_val = 0
    /\ n_train > 0
    /\ params > 0

\* C9: with visualization enabled and an endpoint that never answers, the
\* start-up loop polls at most StartupTenths + 1 times and no visualization
\* call is made in any epoch.
C9_NoVizAfterFailedPolling ==
    (use_visdom /\ up_after = Never) =>
        /\ polls <= StartupTenths + 1
        /\ viz_calls = 0

\* C10: at the head of the main loop best_loss is the minimum of the
\* validation losses of the epochs run so far (infinity before the first) and
\* is the loss recorded in the checkpoint written last; best_loss differs
\* from that minimum only between a validation pass and its checkpoint
\* decision, or after the epoch in which stop was returned.
C10_BestLossIsRunningMin ==
    /\ pc = "loop" =>
          /\ best_loss = min_seen
          /\ epoch = 0 => (best_loss = Inf /\ ckpt_writes = 0)
          /\ epoch > 0 => (ckpt_writes > 0 /\ last_ckpt.val_loss = best_loss)
    /\ best_loss # min_seen =>
          \/ pc \in {"sched", "report", "early_stop", "checkpoint"}
          \/ stop /\ pc \in AfterStop

\* C10 witness: the loop is at its head after three epochs of which one did
\* not improve on the best loss.
C10_Witness ==
    /\ pc = "loop"
    /\ epoch >= 3
    /\ ckpt_writes = 2
    /\ RatLess(best_loss, v_loss)

====
